---- MODULE Spec2Model ----
(***************************************************************************)
(* Scoring engine and result normalisation of the ISCA swim meet scorer.   *)
(*                                                                         *)
(* Numbers.  Times and scores are whole units 0..MaxValue+Beyond.  Points  *)
(* are rationals; every point value is carried multiplied by Scale, the    *)
(* product 1*2*..*MaxValue, which every gap between two tabled values      *)
(* divides, so linear interpolation is exact integer arithmetic.           *)
(* An optional value (Python None) is <<>>, a present value x is <<x>>.    *)
(***************************************************************************)
EXTENDS Integers, Sequences, FiniteSets, TLC

VARIABLES pc, tbl, call, ret, pos, event_results, results, db, savepoint

vars == <<pc, tbl, call, ret, pos, event_results, results, db, savepoint>>

------------------------------------------------------------------------------
(* Bounds of the model *)

MaxValue == 3

MaxEntries == 2

Beyond == 2

MaxRows == 2

------------------------------------------------------------------------------
(* Optional values *)

None == <<>>

Some(x) == <<x>>

Val(o) == o[1]

(* Python truthiness of an optional number followed by "> 0":              *)
(* "x and x > 0"                                                           *)
Positive(o) == o # None /\ Val(o) > 0

RECURSIVE Fact(_)
Fact(n) == IF n <= 1 THEN 1 ELSE n * Fact(n - 1)

Scale == Fact(MaxValue)

Max2(a, b) == IF a >= b THEN a ELSE b

------------------------------------------------------------------------------
(* Point tables: a table is a set of <<value, points>> pairs with distinct  *)
(* values (the keys of a dict).                                             *)

TableValues == 1 .. MaxValue

PointValues == {-5, 0, 1, 5, 15}

QueryValues == 0 .. (MaxValue + Beyond)

Entries == TableValues \X PointValues

IsTable(t) == \A e1, e2 \in t : e1[1] = e2[1] => e1 = e2

Tables == {t \in SUBSET Entries : Cardinality(t) <= MaxEntries /\ IsTable(t)}

Times(t) == {e[1] : e \in t}

PointsAt(t, x) == (CHOOSE e \in t : e[1] = x)[2]

(* A table is monotone when its points never fall (dir = 1, a score event) *)
(* or never rise (dir = -1, a race) as the tabled value grows.              *)
Monotone(t, dir) ==
    \A e1, e2 \in t : e1[1] < e2[1] => dir * e1[2] <= dir * e2[2]

(* sorted(point_table.items()): the tabled values in ascending order        *)
RECURSIVE SortedTimes(_)
SortedTimes(xs) ==
    IF xs = {} THEN <<>>
    ELSE LET m == CHOOSE x \in xs : \A y \in xs : x <= y
         IN  <<m>> \o SortedTimes(xs \ {m})

(* numpy.searchsorted(x, q) (side = left): how many tabled values are < q   *)
SearchSorted(xs, q) == Cardinality({i \in 1 .. Len(xs) : xs[i] < q})

Clip(i, lo, hi) == IF i < lo THEN lo ELSE IF i > hi THEN hi ELSE i

(* The straight line through the table entries at sorted positions lo, hi   *)
(* evaluated at q, times Scale.                                             *)
Line(t, xs, lo, hi, q) ==
    LET xlo == xs[lo]
        xhi == xs[hi]
        ylo == PointsAt(t, xlo)
        yhi == PointsAt(t, xhi)
    IN  Scale * ylo + (yhi - ylo) * (q - xlo) * (Scale \div (xhi - xlo))

------------------------------------------------------------------------------
(* PointSystem (isca_point_scorer/apps/scoring/models.py)                   *)

PenaltyPerSecond == 10

Get(f, k, default) == IF k \in DOMAIN f THEN f[k] ELSE default

(* float(time_str), float(points) succeed for every entry: the validator    *)
(* checks that each key and each value is a number and nothing about sign.  *)
validate_point_system(data) ==
    \A g \in DOMAIN data : \A ev \in DOMAIN data[g] :
        \A e \in data[g][ev] : e[1] \in Int /\ e[2] \in Int

(* self.data of a PointSystem holding table t for one men's event           *)
PointSystemData(t) == [g \in {"Men's"} |-> [ev \in {"100 Freestyle (SCY)"} |-> t]]

(* the penalty without its floor at 0                                       *)
SlowerPenaltyUnfloored(last_points, d) ==
    Scale * last_points - d * PenaltyPerSecond * Scale

(* max(0, points[-1] - (time_seconds - times[-1]) * 10), times Scale        *)
SlowerPenalty(last_points, d) ==
    Max2(0, Scale * last_points - d * PenaltyPerSecond * Scale)

(* interp1d(times, points)(q) for times[0] < q < times[-1]                  *)
InterpInside(t, q) ==
    LET xs == SortedTimes(Times(t))
        i  == Clip(SearchSorted(xs, q), 1, Len(xs) - 1)
    IN  Line(t, xs, i, i + 1, q)

get_points(data, gender, event_key, time_seconds) ==
    IF time_seconds = None \/ Val(time_seconds) <= 0 THEN 0
    ELSE LET event_data == Get(Get(data, gender, <<>>), event_key, {})
             q  == Val(time_seconds)
             xs == SortedTimes(Times(event_data))
         IN  IF event_data = {} THEN 0
             ELSE IF q <= xs[1] THEN Scale * PointsAt(event_data, xs[1])
             ELSE IF q >= xs[Len(xs)]
                  THEN SlowerPenalty(PointsAt(event_data, xs[Len(xs)]), q - xs[Len(xs)])
             ELSE InterpInside(event_data, q)

------------------------------------------------------------------------------
(* ScoringSystem (isca_swim_scorer/scoring/scoring_system.py)               *)

MinSystemAge == 6

OpenAge == 15

(* keys of self.point_systems                                               *)
SystemAges == MinSystemAge .. OpenAge

(* The point system modules map "Men's" and "Women's" to event tables.      *)
SystemGenders == {"Men's", "Women's"}

TabledEvents == {"100 Freestyle (SCY)", "Chin-Ups"}

(* self.point_systems[a]: every age's system holds table tbl for each       *)
(* tabled event; which system is consulted is observed by its age key.      *)
point_systems(a) == [g \in SystemGenders |-> [ev \in TabledEvents |-> tbl]]

(* An event key is the list of its words: <<w>> is a key without a space,   *)
(* <<w, rest>> is "w rest"; the empty key splits into the one word "".      *)
KeyGender(event_key) == event_key[1]

KeyEvent(event_key) == IF Len(event_key) > 1 THEN event_key[2] ELSE ""

(* lines 33-40: the age whose point system is asked for                     *)
point_age_of(age, event_max_age) ==
    IF age = None
    THEN IF event_max_age # None THEN Val(event_max_age) ELSE OpenAge
    ELSE IF Val(age) > 0 /\ Val(age) < OpenAge THEN Val(age) ELSE OpenAge

(* lines 43-49: the point system consulted, by its key                      *)
point_system_of(point_age) ==
    IF point_age \in SystemAges THEN point_age ELSE OpenAge

(* _get_point_table: [raised, table] where table is None when absent        *)
get_point_table(event_key, age, event_max_age) ==
    LET event_gender == IF KeyGender(event_key) = "Mixed" THEN "Men's"
                        ELSE KeyGender(event_key)
        actual_event == KeyEvent(event_key)
        system == point_systems(point_system_of(point_age_of(age, event_max_age)))
    IN  IF event_gender \notin DOMAIN system
        THEN [raised |-> TRUE, table |-> None]
        ELSE [raised |-> FALSE,
              table  |-> IF actual_event \in DOMAIN system[event_gender]
                         THEN Some(system[event_gender][actual_event]) ELSE None]

(* an interpolant that holds the end values outside the table              *)
Interp1dEndValues(t, q) ==
    LET xs == SortedTimes(Times(t))
        n  == Len(xs)
        i  == Clip(SearchSorted(xs, q), 1, n - 1)
        qq == Clip(q, xs[1], xs[n])
    IN  IF n = 0 THEN {[raised |-> TRUE, nan |-> FALSE, value |-> 0]}
        ELSE IF n = 1 THEN {[raised |-> TRUE, nan |-> FALSE, value |-> 0],
                            [raised |-> FALSE, nan |-> TRUE, value |-> 0]}
        ELSE {[raised |-> FALSE, nan |-> FALSE, value |-> Line(t, xs, i, i + 1, qq)]}

(* interp1d(times, points, bounds_error=False, fill_value="extrapolate")    *)
(* evaluated at q: the set of outcomes.  No entry: ValueError.  One entry:  *)
(* ValueError in builds whose interp1d needs two entries, NaN in the others.*)
Interp1dExtrapolate(t, q) ==
    LET xs == SortedTimes(Times(t))
        n  == Len(xs)
        i  == Clip(SearchSorted(xs, q), 1, n - 1)
    IN  IF n = 0 THEN {[raised |-> TRUE, nan |-> FALSE, value |-> 0]}
        ELSE IF n = 1 THEN {[raised |-> TRUE, nan |-> FALSE, value |-> 0],
                            [raised |-> FALSE, nan |-> TRUE, value |-> 0]}
        ELSE {[raised |-> FALSE, nan |-> FALSE, value |-> Line(t, xs, i, i + 1, q)]}

(* score if score > 0 else 0.0 (NaN > 0 is false)                           *)
FloorAtZero(r) == IF r.nan \/ r.value <= 0 THEN 0 ELSE r.value

(* calculate_points: the set of outcomes [raised, value, system]            *)
calculate_points(event_key, time, age, event_max_age) ==
    LET got    == get_point_table(event_key, age, event_max_age)
        system == point_system_of(point_age_of(age, event_max_age))
    IN  IF got.raised THEN {[raised |-> TRUE, value |-> 0, system |-> system]}
        ELSE IF got.table = None THEN {[raised |-> FALSE, value |-> 0, system |-> system]}
        ELSE IF time = None \/ Val(time) <= 0
             THEN {[raised |-> FALSE, value |-> 0, system |-> system]}
        ELSE {[raised |-> r.raised,
               value  |-> IF r.raised THEN 0 ELSE FloorAtZero(r),
               system |-> system] : r \in Interp1dExtrapolate(Val(got.table), Val(time))}

------------------------------------------------------------------------------
(* Calls of the two scoring functions on drawn inputs                       *)

NoCall == [kind |-> "none"]

NoRet == [raised |-> FALSE, value |-> 0, system |-> 0]

(* The persisted records of one meet                                        *)
EmptyDb == [events |-> <<>>, teams |-> {}, swimmers |-> {}, results |-> <<>>]

OptionalQueries == {None} \cup {Some(q) : q \in QueryValues}

(* PointSystem.get_points on a stored (validated) point system              *)
PointsCalls ==
    [kind : {"get_points"}, gender : {"Men's", "Women's"},
     event_key : {"100 Freestyle (SCY)", "50 Butterfly (SCY)"},
     time : OptionalQueries]

InitPoints ==
    /\ pc = "ready"
    /\ tbl \in Tables
    /\ validate_point_system(PointSystemData(tbl))
    /\ call \in PointsCalls
    /\ ret = NoRet
    /\ pos = <<1, 1>>
    /\ event_results = <<>>
    /\ results = <<>>
    /\ db = EmptyDb
    /\ savepoint = EmptyDb

GetPoints ==
    /\ pc = "ready"
    /\ call.kind = "get_points"
    /\ ret' = [raised |-> FALSE,
               value  |-> get_points(PointSystemData(tbl), call.gender,
                                     call.event_key, call.time),
               system |-> 0]
    /\ pc' = "done"
    /\ UNCHANGED <<tbl, call, pos, event_results, results, db, savepoint>>

NextPoints == GetPoints

SpecPoints == InitPoints /\ [][NextPoints]_vars

(* ScoringSystem.calculate_points                                           *)
EventKeys ==
    {<<"">>, <<"Freestyle">>, <<"", "100 Freestyle (SCY)">>,
     <<"Unknown", "100 Freestyle (SCY)">>, <<"Mixed", "100 Freestyle (SCY)">>,
     <<"Men's", "100 Freestyle (SCY)">>, <<"Women's", "1600 Freestyle (LCM)">>,
     <<"Women's", "Chin-Ups">>}

AgeInputs == {None} \cup {Some(a) : a \in {-1, 0, 1, 3, 5, 6, 10, 14, 15, 16}}

MaxAgeInputs == {None} \cup {Some(a) : a \in {0, 8, 10, 14, 18, 99}}

ScoringCalls ==
    [kind : {"calculate_points"}, event_key : EventKeys, time : OptionalQueries,
     age : AgeInputs, event_max_age : MaxAgeInputs]

(* Table selection: every key, age and max_age against two-entry tables     *)
InitLookup ==
    /\ pc = "ready"
    /\ tbl \in {t \in Tables : Times(t) = {1, MaxValue}}
    /\ call \in {c \in ScoringCalls : c.time \in {None, Some(0), Some(MaxValue)}}
    /\ ret = NoRet
    /\ pos = <<1, 1>>
    /\ event_results = <<>>
    /\ results = <<>>
    /\ db = EmptyDb
    /\ savepoint = EmptyDb

(* Interpolation: every table and query value for a few keys and ages       *)
InitScoring ==
    /\ pc = "ready"
    /\ tbl \in Tables
    /\ call \in {c \in ScoringCalls :
                    /\ c.event_key \in {<<"Men's", "100 Freestyle (SCY)">>,
                                        <<"Women's", "Chin-Ups">>,
                                        <<"Women's", "1600 Freestyle (LCM)">>}
                    /\ c.age \in {None, Some(10)}
                    /\ c.event_max_age = None}
    /\ ret = NoRet
    /\ pos = <<1, 1>>
    /\ event_results = <<>>
    /\ results = <<>>
    /\ db = EmptyDb
    /\ savepoint = EmptyDb

CalculatePoints ==
    /\ pc = "ready"
    /\ call.kind = "calculate_points"
    /\ ret' \in calculate_points(call.event_key, call.time, call.age, call.event_max_age)
    /\ pc' = "done"
    /\ UNCHANGED <<tbl, call, pos, event_results, results, db, savepoint>>

NextScoring == CalculatePoints

SpecLookup == InitLookup /\ [][NextScoring]_vars

SpecScoring == InitScoring /\ [][NextScoring]_vars

------------------------------------------------------------------------------
(* Time codec (isca_swim_scorer/core/utils.py).  A rendered time is the     *)
(* record of its layout and its fields; whole seconds, so the fraction is   *)
(* always .00.                                                              *)

(* the empty string                                                         *)
EmptyText == [form |-> "", h |-> 0, m |-> 0, s |-> 0]

Dash == [form |-> "-", h |-> 0, m |-> 0, s |-> 0]

Dashes == [form |-> "---", h |-> 0, m |-> 0, s |-> 0]

format_swim_time(seconds) ==
    IF seconds = None \/ Val(seconds) <= 0 THEN Dashes
    ELSE LET minutes == Val(seconds) \div 60
             secs    == Val(seconds) % 60
             hours   == minutes \div 60
             mins    == minutes % 60
         IN  IF hours > 0 THEN [form |-> "H:M:SS.ss", h |-> hours, m |-> mins, s |-> secs]
             ELSE IF mins > 0 THEN [form |-> "M:SS.ss", h |-> 0, m |-> mins, s |-> secs]
             ELSE [form |-> "S.ss", h |-> 0, m |-> 0, s |-> secs]

(* parse_swim_time: [raised, value]; float("-") is a ValueError             *)
parse_swim_time(text) ==
    IF text = EmptyText \/ text = Dashes THEN [raised |-> FALSE, value |-> 0]
    ELSE IF text = Dash THEN [raised |-> TRUE, value |-> 0]
    ELSE [raised |-> FALSE, value |-> text.h * 3600 + text.m * 60 + text.s]

(* the characters of a rendered time of whole seconds: ":05.2f" pads the    *)
(* seconds to two integer digits, ".2f" and int() pad nothing               *)
Pad2(n) == IF n < 10 THEN "0" \o ToString(n) ELSE ToString(n)

time_text(t) ==
    IF t.form \in {"", "-", "---"} THEN t.form
    ELSE IF t.form = "H:M:SS.ss"
    THEN ToString(t.h) \o ":" \o ToString(t.m) \o ":" \o Pad2(t.s) \o ".00"
    ELSE IF t.form = "M:SS.ss" THEN ToString(t.m) \o ":" \o Pad2(t.s) \o ".00"
    ELSE ToString(t.s) \o ".00"

MaxHours == 1

(* whole seconds h:m:s for a few minutes and seconds on both sides of 10    *)
FormatInputs ==
    {None, Some(-1)}
        \cup {Some(h * 3600 + m * 60 + sec) :
                 h \in 0 .. MaxHours, m \in {0, 1, 5, 10, 59}, sec \in {0, 1, 9, 10, 59}}

ParseInputs == {EmptyText, Dash, Dashes} \cup {format_swim_time(x) : x \in FormatInputs}

InitTimes ==
    /\ pc = "ready"
    /\ tbl = {}
    /\ call \in [kind : {"format"}, seconds : FormatInputs]
                  \cup [kind : {"parse"}, text : ParseInputs]
    /\ ret = NoRet
    /\ pos = <<1, 1>>
    /\ event_results = <<>>
    /\ results = <<>>
    /\ db = EmptyDb
    /\ savepoint = EmptyDb

FormatTime ==
    /\ pc = "ready"
    /\ call.kind = "format"
    /\ ret' = [raised |-> FALSE, value |-> 0, system |-> 0,
               text |-> time_text(format_swim_time(call.seconds))]
    /\ pc' = "done"
    /\ UNCHANGED <<tbl, call, pos, event_results, results, db, savepoint>>

ParseTime ==
    /\ pc = "ready"
    /\ call.kind = "parse"
    /\ ret' = [raised |-> parse_swim_time(call.text).raised,
               value  |-> parse_swim_time(call.text).value,
               system |-> 0,
               text   |-> time_text(call.text)]
    /\ pc' = "done"
    /\ UNCHANGED <<tbl, call, pos, event_results, results, db, savepoint>>

NextTimes == FormatTime \/ ParseTime

SpecTimes == InitTimes /\ [][NextTimes]_vars

(* round(x, 2) of a point value: hundredths of a point                      *)
Round2(v) == (200 * v + Scale) \div (2 * Scale)

(* list.sort(key=...) is stable; a key is <<>> for +infinity or <<k>>       *)
KeyLess(a, b) == a # None /\ (b = None \/ Val(a) < Val(b))

(* pairs: a list of <<key, item>>                                          *)
RECURSIVE InsertKeyed(_, _)
InsertKeyed(sorted, x) ==
    IF sorted = <<>> THEN <<x>>
    ELSE IF KeyLess(x[1], Head(sorted)[1]) THEN <<x>> \o sorted
    ELSE <<Head(sorted)>> \o InsertKeyed(Tail(sorted), x)

RECURSIVE SortKeyed(_)
SortKeyed(pairs) ==
    IF pairs = <<>> THEN <<>>
    ELSE InsertKeyed(SortKeyed(SubSeq(pairs, 1, Len(pairs) - 1)), pairs[Len(pairs)])

Items(pairs) == [i \in 1 .. Len(pairs) |-> pairs[i][2]]

------------------------------------------------------------------------------
(* process_hytek_file (isca_swim_scorer/uploads/parser.py), one event       *)

MaxHytekEntries == 1

MaxPhase == 2

(* entries of one event in a file of several entries                       *)
MaxFileEntries == 2

(* calls of process_hytek_file against the same meet                        *)
MaxRuns == 2

PhaseValues == {None} \cup {Some(q) : q \in 0 .. MaxPhase}

(* entry.prelim_time, swimoff_time, finals_time and the swimmer's age       *)
HytekEntries ==
    [prelim_time : PhaseValues, swimoff_time : PhaseValues,
     finals_time : PhaseValues, age : {Some(0), Some(10)}]

EntryLists == UNION {[1 .. n -> HytekEntries] : n \in 1 .. MaxHytekEntries}

(* the words of a key after the gender word: "100 Freestyle (SCY)"          *)
KeyRest(distance, stroke_text, course) ==
    ToString(distance) \o " " \o stroke_text \o " (" \o course \o ")"

(* get_event_name(event, course) for an event of the parsed file; the       *)
(* stroke and the gender are members of the parser's enums, by name         *)
event_name(event, course) ==
    LET gender_text == IF event.gender = "M" THEN "Men's"
                       ELSE IF event.gender = "F" THEN "Women's" ELSE ""
        stroke_str == IF event.stroke = "FREESTYLE" THEN "Freestyle"
                      ELSE IF event.stroke = "BACKSTROKE" THEN "Backstroke"
                      ELSE IF event.stroke = "BREASTSTROKE" THEN "Breaststroke"
                      ELSE IF event.stroke = "BUTTERFLY" THEN "Butterfly"
                      ELSE "Unknown"
    IN  IF event.relay
        THEN IF event.stroke = "MEDLEY"
             THEN <<gender_text, KeyRest(event.distance, "Medley Relay", course)>>
             ELSE <<gender_text, KeyRest(event.distance, "Freestyle Relay", course)>>
        ELSE IF event.stroke = "MEDLEY"
        THEN <<gender_text, KeyRest(event.distance, "Individual Medley", course)>>
        ELSE <<gender_text, KeyRest(event.distance, stroke_str, course)>>

(* get_event_name for an individual freestyle event of a SCY meet           *)
get_event_name(event) ==
    event_name([gender |-> event.gender, distance |-> 100, stroke |-> "FREESTYLE",
                relay |-> FALSE], "SCY")

(* lines 160-167                                                            *)
best_time_of(entry) ==
    IF Positive(entry.finals_time) THEN entry.finals_time
    ELSE IF Positive(entry.prelim_time) THEN entry.prelim_time
    ELSE IF Positive(entry.swimoff_time) THEN entry.swimoff_time
    ELSE None

(* Result.best_time (isca_swim_scorer/meets/models.py)                      *)
best_time(result) ==
    LET times == {Val(t) : t \in {x \in {result.final_time, result.prelim_time,
                                         result.swim_off_time} : Positive(x)}}
    IN  IF times = {} THEN 0 ELSE CHOOSE m \in times : \A y \in times : m <= y

(* lines 156-158                                                            *)
hytek_point_age(entry) == IF Positive(entry.age) THEN entry.age ELSE None

Truthy(o) == o # None /\ Val(o) # 0

ShownTime(t) == IF Positive(t) THEN format_swim_time(t) ELSE Dash

(* The outcomes of the calculate_points calls of one entry                  *)
NotCalled == {[raised |-> FALSE, value |-> 0, system |-> 0]}

EntryCalc(entry, time, wanted) ==
    IF wanted
    THEN calculate_points(get_event_name(call.event), time, hytek_point_age(entry),
                          call.event.age_max)
    ELSE NotCalled

(* result_entry, lines 174-186                                              *)
result_entry(i, entry, best) ==
    [swimmer      |-> i,
     raw_age      |-> hytek_point_age(entry),
     prelim_time  |-> ShownTime(entry.prelim_time),
     swimoff_time |-> ShownTime(entry.swimoff_time),
     final_time   |-> ShownTime(entry.finals_time),
     points       |-> IF best_time_of(entry) # None THEN Some(Round2(best.value)) ELSE None,
     gender       |-> call.event.gender,
     team_code    |-> "T1"]

(* Team and Swimmer get_or_create, Result create and its points,            *)
(* lines 190-246                                                            *)
SaveEntry(i, entry, rp, rs, rf) ==
    LET key == [team |-> "T1", swimmer_meet_id |-> i]
        known == \E sw \in db.swimmers : sw.key = key
    IN  [db EXCEPT
           !.teams    = @ \cup {"T1"},
           !.swimmers = IF known THEN @
                        ELSE @ \cup {[key |-> key, age |-> hytek_point_age(entry)]},
           !.results  = Append(@,
               [event           |-> call.event.number,
                swimmer         |-> key,
                prelim_time     |-> entry.prelim_time,
                swim_off_time   |-> entry.swimoff_time,
                final_time      |-> entry.finals_time,
                prelim_points   |-> rp.value,
                swim_off_points |-> rs.value,
                final_points    |-> rf.value,
                best_points     |-> Max2(rp.value, Max2(rs.value, rf.value))])]

InitHytek ==
    /\ pc = "ready"
    /\ tbl \in {t \in Tables : Times(t) = {1, MaxValue} /\ Monotone(t, -1)
                               /\ \A e \in t : e[2] >= 0}
    /\ call \in [kind : {"hytek"},
                 event : [number : {1}, gender : {"M", "U"}, age_max : {Some(14)}],
                 meet : BOOLEAN,
                 entries : EntryLists]
    /\ ret = NoRet
    /\ pos = <<1, 1>>
    /\ event_results = <<>>
    /\ results = <<>>
    /\ db = EmptyDb
    /\ savepoint = EmptyDb

(* what the database holds after an exception leaves a function decorated  *)
(* with transaction.atomic: the records of before the call                  *)
RollbackKeepsWrites(now, before) == now

Rollback(now, before) == before

(* lines 83-139: enter the transaction, create the Event of the meet; the   *)
(* create violates unique_together (meet, event_number) when the meet       *)
(* already has the event                                                    *)
HytekBegin ==
    /\ pc = "ready"
    /\ call.kind = "hytek"
    /\ savepoint' = db
    /\ event_results' = <<>>
    /\ IF call.meet /\ \E e \in 1 .. Len(db.events) : db.events[e].number = call.event.number
       THEN pc' = "failed" /\ db' = Rollback(db, savepoint')
       ELSE /\ pc' = "entries"
            /\ db' = IF call.meet
                     THEN [db EXCEPT !.events =
                             Append(@, [number  |-> call.event.number,
                                        name    |-> get_event_name(call.event),
                                        gender  |-> call.event.gender,
                                        max_age |-> call.event.age_max])]
                     ELSE db
    /\ UNCHANGED <<tbl, call, ret, pos, results>>

(* lines 141-246 for the next entry, no call raising                        *)
HytekEntry ==
    /\ pc = "entries"
    /\ Len(event_results) < Len(call.entries)
    /\ LET i     == Len(event_results) + 1
           entry == call.entries[i]
       IN  \E rb \in EntryCalc(entry, best_time_of(entry), best_time_of(entry) # None),
              rp \in EntryCalc(entry, entry.prelim_time, call.meet /\ Truthy(entry.prelim_time)),
              rs \in EntryCalc(entry, entry.swimoff_time, call.meet /\ Truthy(entry.swimoff_time)),
              rf \in EntryCalc(entry, entry.finals_time, call.meet /\ Truthy(entry.finals_time)) :
             /\ ~rb.raised /\ ~rp.raised /\ ~rs.raised /\ ~rf.raised
             /\ event_results' = Append(event_results, result_entry(i, entry, rb))
             /\ db' = IF call.meet THEN SaveEntry(i, entry, rp, rs, rf) ELSE db
    /\ UNCHANGED <<pc, tbl, call, ret, pos, results, savepoint>>

(* a calculate_points call of the next entry raises: the exception leaves   *)
(* process_hytek_file and transaction.atomic rolls the writes back          *)
HytekEntryRaises ==
    /\ pc = "entries"
    /\ Len(event_results) < Len(call.entries)
    /\ LET entry == call.entries[Len(event_results) + 1]
       IN  \E rb \in EntryCalc(entry, best_time_of(entry), best_time_of(entry) # None),
              rp \in EntryCalc(entry, entry.prelim_time, call.meet /\ Truthy(entry.prelim_time)),
              rs \in EntryCalc(entry, entry.swimoff_time, call.meet /\ Truthy(entry.swimoff_time)),
              rf \in EntryCalc(entry, entry.finals_time, call.meet /\ Truthy(entry.finals_time)) :
             rb.raised \/ rp.raised \/ rs.raised \/ rf.raised
    /\ pc' = "failed"
    /\ db' = Rollback(db, savepoint)
    /\ ret' = [raised |-> TRUE, value |-> 0, system |-> 0]
    /\ event_results' = <<>>
    /\ UNCHANGED <<tbl, call, pos, results, savepoint>>

(* lines 248-256: sort by final time and file the list under the event name *)
FinalTimeKey(r) ==
    IF r.final_time = Dash THEN None ELSE Some(parse_swim_time(r.final_time).value)

HytekEnd ==
    /\ pc = "entries"
    /\ Len(event_results) = Len(call.entries)
    /\ LET pairs == [i \in 1 .. Len(event_results) |->
                        <<FinalTimeKey(event_results[i]), event_results[i]>>]
       IN  results' = (get_event_name(call.event) :> Items(SortKeyed(pairs))) @@ results
    /\ pc' = "done"
    /\ UNCHANGED <<tbl, call, ret, pos, event_results, db, savepoint>>

(* the same file is processed again against the same meet                   *)
HytekAgain ==
    /\ pc = "done"
    /\ call.kind = "hytek"
    /\ pos[1] < MaxRuns
    /\ pc' = "ready"
    /\ pos' = <<pos[1] + 1, 1>>
    /\ event_results' = <<>>
    /\ results' = <<>>
    /\ ret' = NoRet
    /\ UNCHANGED <<tbl, call, db, savepoint>>

NextHytek == HytekBegin \/ HytekEntry \/ HytekEntryRaises \/ HytekEnd \/ HytekAgain

SpecHytek == InitHytek /\ [][NextHytek]_vars

(* A file whose event has several entries, scored on one table              *)
FileEntries ==
    [prelim_time : {None, Some(1)}, swimoff_time : {None},
     finals_time : PhaseValues, age : {Some(10)}]

FileEntryLists == UNION {[1 .. n -> FileEntries] : n \in 1 .. MaxFileEntries}

InitHytekFile ==
    /\ pc = "ready"
    /\ tbl = {<<1, 15>>, <<MaxValue, 0>>}
    /\ call \in [kind : {"hytek"},
                 event : [number : {1}, gender : {"M", "U"}, age_max : {Some(14)}],
                 meet : BOOLEAN,
                 entries : FileEntryLists]
    /\ ret = NoRet
    /\ pos = <<1, 1>>
    /\ event_results = <<>>
    /\ results = <<>>
    /\ db = EmptyDb
    /\ savepoint = EmptyDb

SpecHytekFile == InitHytekFile /\ [][NextHytek]_vars

------------------------------------------------------------------------------
(* The event loop of process_hytek_file over the events of a parsed meet    *)

MaxEvents == 2

(* an event of the parsed meet: its descriptor, its age group and the       *)
(* finals times of its entries.  The genders are those with point tables,   *)
(* so that no entry raises; two events of a meet differ in gender, age      *)
(* group or relay flag.                                                     *)
MeetEvents ==
    [gender : {"M", "F"}, distance : {50}, stroke : {"FREESTYLE"}, relay : BOOLEAN,
     age_max : {Some(10), Some(12)},
     entries : UNION {[1 .. n -> {None, Some(1)}] : n \in 0 .. MaxFileEntries}]

InitHytekMeet ==
    /\ pc = "ready"
    /\ tbl = {<<1, 15>>, <<MaxValue, 0>>}
    /\ call \in [kind : {"hytek_meet"}, course : {"SCY"},
                 events : UNION {[1 .. n -> MeetEvents] : n \in 1 .. MaxEvents}]
    /\ \A i, j \in 1 .. Len(call.events) :
         i # j => <<call.events[i].gender, call.events[i].age_max, call.events[i].relay>>
                      # <<call.events[j].gender, call.events[j].age_max, call.events[j].relay>>
    /\ ret = NoRet
    /\ pos = <<1, 1>>
    /\ event_results = <<>>
    /\ results = <<>>
    /\ db = EmptyDb
    /\ savepoint = EmptyDb

(* lines 174-186 for entry i of the event with number e                     *)
meet_entry(e, i, finals_time) ==
    [event_number |-> e, swimmer |-> i, final_time |-> ShownTime(finals_time)]

(* lines 115-253 for the next event: a relay is skipped; the entries of any *)
(* other event are listed, sorted by final time and assigned to             *)
(* results[event_name]                                                      *)
HytekMeetEvent ==
    /\ pc = "ready"
    /\ call.kind = "hytek_meet"
    /\ pos[1] <= Len(call.events)
    /\ LET event == call.events[pos[1]]
           pairs == [i \in 1 .. Len(event.entries) |->
                        <<FinalTimeKey(meet_entry(pos[1], i, event.entries[i])),
                          meet_entry(pos[1], i, event.entries[i])>>]
       IN  results' = IF event.relay THEN results
                      ELSE (event_name(event, call.course) :> Items(SortKeyed(pairs))) @@ results
    /\ pos' = <<pos[1] + 1, 1>>
    /\ UNCHANGED <<pc, tbl, call, ret, event_results, db, savepoint>>

(* lines 255-256                                                            *)
HytekMeetEnd ==
    /\ pc = "ready"
    /\ call.kind = "hytek_meet"
    /\ pos[1] > Len(call.events)
    /\ pc' = "done"
    /\ UNCHANGED <<tbl, call, ret, pos, event_results, results, db, savepoint>>

NextHytekMeet == HytekMeetEvent \/ HytekMeetEnd

SpecHytekMeet == InitHytekMeet /\ [][NextHytekMeet]_vars

------------------------------------------------------------------------------
(* The key of a stored event (meets/models.py, core/models.py)              *)

(* Stroke.choices: value and label                                          *)
StrokeChoices ==
    {<<"FR", "Freestyle">>, <<"BK", "Backstroke">>, <<"BR", "Breaststroke">>,
     <<"FL", "Butterfly">>, <<"IM", "Individual Medley">>, <<"MR", "Medley Relay">>,
     <<"FRR", "Freestyle Relay">>}

(* get_stroke_display(): the label of the stored value, or the value        *)
(* itself when it is not among the choices                                  *)
get_stroke_display(stroke) ==
    IF \E c \in StrokeChoices : c[1] = stroke
    THEN (CHOOSE c \in StrokeChoices : c[1] = stroke)[2]
    ELSE stroke

(* Event.event_key of a stored event in a meet of the given course          *)
event_key_of(event, meet_course) ==
    LET gender_text == IF event.gender = "M" THEN "Men's"
                       ELSE IF event.gender = "F" THEN "Women's" ELSE "Mixed"
    IN  IF event.is_relay
        THEN IF event.stroke = "MR"
             THEN <<gender_text, KeyRest(event.distance, "Medley Relay", meet_course)>>
             ELSE <<gender_text, KeyRest(event.distance, "Freestyle Relay", meet_course)>>
        ELSE <<gender_text, KeyRest(event.distance, get_stroke_display(event.stroke), meet_course)>>

(* the members of the parser's enums Gender, Stroke and Course, by name     *)
FileGenders == {"M", "F", "X"}

FileStrokes == {"FREESTYLE", "BACKSTROKE", "BREASTSTROKE", "BUTTERFLY", "MEDLEY"}

FileCourses == {"SCY", "LCM"}

(* Course.choices of a Meet; a meet created by the upload task has SCY      *)
MeetCourses == {"SCY", "LCM"}

FileDistances == {50, 100}

NoKeys == [raised |-> FALSE, value |-> 0, system |-> 0, ingested |-> <<>>, derived |-> <<>>]

InitEventKey ==
    /\ pc = "ready"
    /\ tbl = {}
    /\ call \in [kind : {"event_key"},
                 event : [gender : FileGenders, distance : FileDistances,
                          stroke : FileStrokes, relay : BOOLEAN],
                 course : FileCourses,
                 meet_course : MeetCourses]
    /\ ret = NoKeys
    /\ pos = <<1, 1>>
    /\ event_results = <<>>
    /\ results = <<>>
    /\ db = EmptyDb
    /\ savepoint = EmptyDb

(* process_hytek_file, lines 115-139: a relay is skipped, any other event   *)
(* is named for scoring and stored                                          *)
StoreEvent ==
    /\ pc = "ready"
    /\ call.kind = "event_key"
    /\ IF call.event.relay
       THEN pc' = "skipped" /\ UNCHANGED <<ret, db>>
       ELSE /\ pc' = "stored"
            /\ ret' = [ret EXCEPT !.ingested = event_name(call.event, call.course)]
            /\ db' = [db EXCEPT !.events =
                        Append(@, [number   |-> 1,
                                   name     |-> event_name(call.event, call.course),
                                   distance |-> call.event.distance,
                                   stroke   |-> call.event.stroke,
                                   gender   |-> call.event.gender,
                                   is_relay |-> call.event.relay])]
    /\ UNCHANGED <<tbl, call, pos, event_results, results, savepoint>>

(* calculate_result_points, line 92: the key of the stored event            *)
RescoreEvent ==
    /\ pc = "stored"
    /\ call.kind = "event_key"
    /\ ret' = [ret EXCEPT !.derived = event_key_of(db.events[1], call.meet_course)]
    /\ pc' = "done"
    /\ UNCHANGED <<tbl, call, pos, event_results, results, db, savepoint>>

NextEventKey == StoreEvent \/ RescoreEvent

SpecEventKey == InitEventKey /\ [][NextEventKey]_vars

------------------------------------------------------------------------------
(* process_dryland_file                                                     *)
(* (isca_deployment_20250814_120315/isca_swim_scorer/uploads/               *)
(* dryland_parser.py)                                                       *)

(* A header is its label and the keywords its lower-cased text contains.    *)
ChinUpsHeader == [label |-> "Chin-ups", has |-> {"chin", "up"}]

PlankHeader == [label |-> "Plank", has |-> {}]

normalize_event_name_for_scoring(header) ==
    IF {"chin", "up"} \subseteq header.has THEN "Chin-Ups"
    ELSE IF "dip" \in header.has THEN "Dips"
    ELSE IF {"vertical", "jump"} \subseteq header.has THEN "Vertical Jump"
    ELSE header.label

get_age_group(age) ==
    IF age < MinSystemAge THEN <<MinSystemAge, MinSystemAge>>
    ELSE IF age >= OpenAge THEN <<OpenAge, 99>>
    ELSE <<age, age>>

AgeGroups == {get_age_group(a) : a \in SystemAges}

(* f"{gender_prefix} {base_event_name} - {age_display}" as its three parts  *)
GroupName(gender_prefix, header, group) ==
    <<gender_prefix, header.label, IF group[2] = 99 THEN "Open" ELSE ToString(group[1])>>

(* lines 328-359: an empty list for every column, gender and age group      *)
EmptyGroups(columns) ==
    [name \in {GroupName(g, columns[j].header, grp) :
                  g \in {"Men's", "Women's"}, j \in 1 .. Len(columns), grp \in AgeGroups}
        |-> <<>>]

(* lines 419-423                                                            *)
dryland_event_key(gender, header) ==
    <<IF gender = "M" THEN "Men's" ELSE IF gender = "F" THEN "Women's" ELSE "Men's",
      normalize_event_name_for_scoring(header)>>

(* age or 12                                                                *)
AgeOr12(age) == IF age = None \/ Val(age) = 0 THEN 12 ELSE Val(age)

(* lines 428-430: a zero from the scoring system falls back to the score    *)
dryland_points(points, score) == IF points = 0 THEN Scale * score ELSE points

(* lines 432-458                                                            *)
dryland_result(i, row, column, score, r) ==
    LET group == get_age_group(AgeOr12(row.age))
    IN  [swimmer   |-> i,
         raw_age   |-> row.age,
         score     |-> score,
         points    |-> dryland_points(r.value, score),
         gender    |-> row.gender,
         team_code |-> "UNKNOWN",
         column    |-> column.index,
         event     |-> GroupName(IF row.gender = "M" THEN "Men's" ELSE "Women's",
                                 column.header, group),
         min_age   |-> group[1],
         max_age   |-> group[2]]

(* line 493: the event_number given to a new event group                    *)
EventNumber(entry) == 9000 + entry.column + entry.min_age * 100

(* lines 463-510: get_or_create of team, swimmer and event, Result create.  *)
(* Event is unique on (meet, event_number): creating a group whose number   *)
(* another group of the meet holds raises IntegrityError inside             *)
(* get_or_create, and the row's handler leaves the row with the team and    *)
(* the swimmer stored and no result.                                        *)
SaveDryland(entry) ==
    LET key == [team |-> entry.team_code, swimmer_meet_id |-> entry.swimmer]
        knownSwimmer == \E sw \in db.swimmers : sw.key = key
        knownEvent == \E e \in 1 .. Len(db.events) : db.events[e].name = entry.event
        number == EventNumber(entry)
        taken == ~knownEvent /\ \E e \in 1 .. Len(db.events) : db.events[e].number = number
    IN  [db EXCEPT
           !.teams    = @ \cup {entry.team_code},
           !.swimmers = IF knownSwimmer THEN @
                        ELSE @ \cup {[key |-> key, age |-> entry.raw_age]},
           !.events   = IF knownEvent \/ taken THEN @
                        ELSE Append(@, [number |-> number, name |-> entry.event,
                                        gender |-> "U", max_age |-> Some(entry.max_age)]),
           !.results  = IF taken THEN @
                        ELSE Append(@,
               [event           |-> entry.event,
                swimmer         |-> key,
                prelim_time     |-> None,
                swim_off_time   |-> None,
                final_time      |-> Some(entry.score),
                prelim_points   |-> 0,
                swim_off_points |-> 0,
                final_points    |-> entry.points,
                best_points     |-> entry.points])]

ScoreCells == {None} \cup {Some(q) : q \in 0 .. (MaxValue + 1)}

DrylandRows == [gender : {"M", "U"}, age : {None, Some(10)}, scores : [1 .. 1 -> ScoreCells]]

RowLists == UNION {[1 .. n -> DrylandRows] : n \in 1 .. MaxRows}

InitDryland ==
    /\ pc = "ready"
    /\ tbl \in {t \in Tables : Times(t) \subseteq {1, MaxValue} /\ Monotone(t, 1)
                               /\ \A e \in t : e[2] >= 0}
    /\ call \in [kind : {"dryland"},
                 columns : {<<[header |-> h, index |-> 5]>> : h \in {ChinUpsHeader, PlankHeader}},
                 meet : BOOLEAN,
                 rows : RowLists]
    /\ ret = NoRet
    /\ pos = <<1, 1>>
    /\ event_results = <<>>
    /\ results = <<>>
    /\ db = EmptyDb
    /\ savepoint = EmptyDb

(* lines 303-359                                                            *)
DrylandBegin ==
    /\ pc = "ready"
    /\ call.kind = "dryland"
    /\ savepoint' = db
    /\ results' = EmptyGroups(call.columns)
    /\ pos' = <<1, 1>>
    /\ pc' = "rows"
    /\ UNCHANGED <<tbl, call, ret, event_results, db>>

NextCell == IF pos[2] < Len(call.columns) THEN <<pos[1], pos[2] + 1>> ELSE <<pos[1] + 1, 1>>

(* lines 396-510 for one score cell of the current row                      *)
DrylandCell ==
    /\ pc = "rows"
    /\ pos[1] <= Len(call.rows)
    /\ LET row    == call.rows[pos[1]]
           column == call.columns[pos[2]]
           score  == row.scores[pos[2]]
       IN  IF score # None /\ Val(score) > 0
           THEN \E r \in calculate_points(dryland_event_key(row.gender, column.header),
                                          score, row.age, None) :
                   /\ ~r.raised
                   /\ LET entry == dryland_result(pos[1], row, column, Val(score), r)
                      IN  /\ results' = [results EXCEPT ![entry.event] = Append(@, entry)]
                          /\ db' = IF call.meet THEN SaveDryland(entry) ELSE db
           ELSE UNCHANGED <<results, db>>
    /\ pos' = NextCell
    /\ UNCHANGED <<pc, tbl, call, ret, event_results, savepoint>>

(* lines 512-514: an exception in a row is logged and the row is left       *)
DrylandCellRaises ==
    /\ pc = "rows"
    /\ pos[1] <= Len(call.rows)
    /\ LET row    == call.rows[pos[1]]
           column == call.columns[pos[2]]
           score  == row.scores[pos[2]]
       IN  /\ score # None /\ Val(score) > 0
           /\ \E r \in calculate_points(dryland_event_key(row.gender, column.header),
                                        score, row.age, None) : r.raised
    /\ pos' = <<pos[1] + 1, 1>>
    /\ UNCHANGED <<pc, tbl, call, ret, event_results, results, db, savepoint>>

(* lines 516-521: every list sorted by score, highest first                 *)
DrylandEnd ==
    /\ pc = "rows"
    /\ pos[1] > Len(call.rows)
    /\ results' = [name \in DOMAIN results |->
                     Items(SortKeyed([i \in 1 .. Len(results[name]) |->
                                        <<Some(0 - results[name][i].score), results[name][i]>>]))]
    /\ pc' = "done"
    /\ UNCHANGED <<tbl, call, ret, pos, event_results, db, savepoint>>

NextDryland == DrylandBegin \/ DrylandCell \/ DrylandCellRaises \/ DrylandEnd

SpecDryland == InitDryland /\ [][NextDryland]_vars

(* sheets whose athletes differ in gender and age: parse_gender gives M, F, *)
(* X or U, safe_int gives None or a whole number                            *)
GroupRows ==
    [gender : {"M", "F", "X", "U"}, age : {None, Some(0), Some(3), Some(10), Some(20)},
     scores : [1 .. 1 -> {Some(2)}]]

GroupRowLists == UNION {[1 .. n -> GroupRows] : n \in 1 .. MaxRows}

InitDrylandGroups ==
    /\ pc = "ready"
    /\ tbl \in {{<<1, 1>>}, {<<1, 1>>, <<MaxValue, 5>>}}
    /\ call \in [kind : {"dryland"},
                 columns : {<<[header |-> ChinUpsHeader, index |-> 5]>>},
                 meet : BOOLEAN,
                 rows : GroupRowLists]
    /\ ret = NoRet
    /\ pos = <<1, 1>>
    /\ event_results = <<>>
    /\ results = <<>>
    /\ db = EmptyDb
    /\ savepoint = EmptyDb

SpecDrylandGroups == InitDrylandGroups /\ [][NextDryland]_vars

------------------------------------------------------------------------------
(* identify_columns and process_dryland_file of the current parser          *)
(* (isca_swim_scorer/uploads/dryland_parser.py)                             *)

MaxHeaders == 3

(* A header cell: its lower-cased, stripped text, the event keywords the    *)
(* text contains, and whether it passes the general test of lines 183-185   *)
(* (alphanumeric without " -()", longer than 2, not a reserved word).       *)
Header(text, keywords, general) == [lower |-> text, has |-> keywords, general |-> general]

SheetHeaders ==
    {Header("first name", {}, TRUE), Header("fname", {}, TRUE),
     Header("last name", {}, TRUE), Header("name", {}, FALSE),
     Header("athlete", {}, TRUE), Header("age", {}, FALSE),
     Header("chin-ups", {"chin-up"}, TRUE), Header("notes", {}, TRUE),
     Header("", {}, FALSE)}

FirstNameHeaders == {"first name", "firstname", "first", "fname"}

LastNameHeaders == {"last name", "lastname", "last", "lname", "surname"}

FullNameHeaders == {"name", "athlete", "swimmer", "athlete name", "swimmer name", "full name"}

AgeHeaders == {"age", "athlete age", "swimmer age"}

TeamHeaders == {"team", "club", "team name", "club name", "team code"}

GenderHeaders == {"sex", "m/f", "male/female"}

EventKeywords ==
    {"chin-up", "chinup", "chin up", "pull-up", "pullup", "pull up",
     "dip", "dips", "tricep dip", "tricep dips",
     "vertical jump", "vert jump", "jump", "standing jump",
     "push-up", "pushup", "push up", "press-up", "pressup",
     "sit-up", "situp", "sit up", "crunch", "crunches",
     "plank", "planks", "plank hold", "burpee", "burpees",
     "sprint", "run", "dash", "mile", "100m", "200m", "400m",
     "squat", "squats", "leg press", "bench", "bench press",
     "deadlift", "dead lift"}

(* column_mapping: the single-valued roles and the list of event columns;   *)
(* the key 'events' is present exactly when the list is not empty           *)
NoColumns == [single |-> <<>>, events |-> <<>>]

Has(column_mapping, role) == role \in DOMAIN column_mapping.single

SetRole(column_mapping, role, i) ==
    [column_mapping EXCEPT !.single = (role :> i) @@ @]

(* lines 139-188 for the header at index i (from 0)                         *)
IdentifyHeader(column_mapping, header, i) ==
    IF header.lower \in FirstNameHeaders THEN SetRole(column_mapping, "first_name", i)
    ELSE IF header.lower \in LastNameHeaders THEN SetRole(column_mapping, "last_name", i)
    ELSE IF header.lower \in FullNameHeaders
         THEN IF ~Has(column_mapping, "first_name") /\ ~Has(column_mapping, "last_name")
              THEN SetRole(column_mapping, "name", i)
              ELSE column_mapping
    ELSE IF header.lower \in AgeHeaders THEN SetRole(column_mapping, "age", i)
    ELSE IF header.lower \in TeamHeaders THEN SetRole(column_mapping, "team", i)
    ELSE IF "gender" \in header.has \/ header.lower \in GenderHeaders
         THEN SetRole(column_mapping, "gender", i)
    ELSE IF header.lower # "" /\ (header.has \cap EventKeywords # {} \/ header.general)
         THEN [column_mapping EXCEPT !.events = Append(@, [name |-> header, index |-> i])]
    ELSE column_mapping

identify_columns(headers) ==
    LET F[n \in 0 .. Len(headers)] ==
            IF n = 0 THEN NoColumns ELSE IdentifyHeader(F[n - 1], headers[n], n - 1)
    IN  F[Len(headers)]

(* lines 276-281: the two DrylandParseError of the column structure         *)
NoNameColumns(column_mapping) ==
    ~Has(column_mapping, "name")
        /\ (~Has(column_mapping, "first_name") \/ ~Has(column_mapping, "last_name"))

NoEventColumns(column_mapping) == column_mapping.events = <<>>

HeaderLists == UNION {[1 .. n -> SheetHeaders] : n \in 1 .. MaxHeaders}

InitColumns ==
    /\ pc = "ready"
    /\ tbl = {}
    /\ call \in [kind : {"columns"}, headers : HeaderLists]
    /\ ret = NoRet
    /\ pos = <<1, 1>>
    /\ event_results = <<>>
    /\ results = <<>>
    /\ db = EmptyDb
    /\ savepoint = EmptyDb

(* process_dryland_file, lines 273-281, on a sheet that has data rows       *)
CheckColumns ==
    /\ pc = "ready"
    /\ call.kind = "columns"
    /\ LET column_mapping == identify_columns(call.headers)
       IN  /\ ret' = [raised  |-> NoNameColumns(column_mapping)
                                     \/ NoEventColumns(column_mapping),
                      value   |-> 0,
                      system  |-> 0,
                      columns |-> column_mapping]
           /\ pc' = IF ret'.raised THEN "failed" ELSE "rows"
    /\ UNCHANGED <<tbl, call, pos, event_results, results, db, savepoint>>

NextColumns == CheckColumns

SpecColumns == InitColumns /\ [][NextColumns]_vars

------------------------------------------------------------------------------
(* The rows of process_dryland_file (current parser)                        *)

MaxSheetRows == 2

(* A cell is the stripped text the reader returns: its words (split at      *)
(* white space) and the number float() reads from it, if any.               *)
EmptyCell == [words |-> <<>>, number |-> None]

TextCell(words) == [words |-> words, number |-> None]

NumCell(n) == [words |-> <<ToString(n)>>, number |-> Some(n)]

(* float(value) if value and value.strip() else default; ValueError gives   *)
(* the default                                                              *)
safe_float(value, default) ==
    IF value.words = <<>> THEN default
    ELSE IF value.number = None THEN default
    ELSE value.number

(* int(float(value)) on the whole numbers of the model                      *)
safe_int(value, default) == safe_float(value, default)

(* [first_name, last_name] as lists of words                                *)
parse_athlete_name(name_str) ==
    IF name_str = <<>> THEN [first_name |-> <<>>, last_name |-> <<>>]
    ELSE [first_name |-> <<Head(name_str)>>, last_name |-> Tail(name_str)]

CellAt(row, index) == IF index < Len(row) THEN row[index + 1] ELSE EmptyCell

(* lines 308-321: [skip, full_name, first_name]                             *)
athlete_of(row, column_mapping) ==
    IF Has(column_mapping, "first_name") /\ Has(column_mapping, "last_name")
    THEN LET first_name == CellAt(row, column_mapping.single["first_name"]).words
             last_name  == CellAt(row, column_mapping.single["last_name"]).words
         IN  [skip       |-> first_name \o last_name = <<>> \/ first_name = <<>>,
              full_name  |-> first_name \o last_name,
              first_name |-> first_name]
    ELSE IF Has(column_mapping, "name")
    THEN LET full_name == CellAt(row, column_mapping.single["name"]).words
         IN  [skip       |-> full_name = <<>>,
              full_name  |-> full_name,
              first_name |-> parse_athlete_name(full_name).first_name]
    ELSE [skip |-> TRUE, full_name |-> <<>>, first_name |-> <<>>]

(* the test of line 355 without "> 0"                                       *)
ScoreCountsAnyNumber(score) == score # None

(* line 355: score is not None and score > 0                                *)
ScoreCounts(score) == score # None /\ Val(score) > 0

(* lines 360-369; row is the index of the data row, kept to tell the        *)
(* entries of two rows apart                                                *)
sheet_result(row_idx, athlete, age, score, event_info) ==
    [swimmer   |-> athlete.full_name,
     raw_age   |-> age,
     score     |-> score,
     points    |-> score,
     gender    |-> "U",
     team_code |-> "UNKNOWN",
     event     |-> event_info.name.lower,
     column    |-> event_info.index,
     row       |-> row_idx]

SheetSwimmerKey(entry) ==
    [team |-> entry.team_code, swimmer_meet_id |-> [name |-> entry.swimmer, row |-> entry.row]]

(* lines 376-396: Team and Swimmer get_or_create                            *)
SaveSheetSwimmer(d, entry) ==
    LET key == SheetSwimmerKey(entry)
        knownSwimmer == \E sw \in d.swimmers : sw.key = key
    IN  [d EXCEPT !.teams    = @ \cup {entry.team_code},
                  !.swimmers = IF knownSwimmer THEN @
                               ELSE @ \cup {[key |-> key, age |-> entry.raw_age]}]

(* lines 399-420: Event get_or_create and Result create                     *)
SaveSheetResult(d, entry) ==
    LET knownEvent == \E e \in 1 .. Len(d.events) : d.events[e].name = entry.event
    IN  [d EXCEPT
           !.events  = IF knownEvent THEN @
                       ELSE Append(@, [number |-> 9000 + entry.column, name |-> entry.event,
                                       gender |-> "U", max_age |-> None]),
           !.results = Append(@,
               [event           |-> entry.event,
                swimmer         |-> SheetSwimmerKey(entry),
                prelim_time     |-> None,
                swim_off_time   |-> None,
                final_time      |-> Some(entry.score),
                prelim_points   |-> 0,
                swim_off_points |-> 0,
                final_points    |-> entry.points,
                best_points     |-> entry.points])]

(* lines 339-424 for one row: the event columns from left to right.  With   *)
(* a meet, the defaults of the Event need Stroke.OTHER and the Result needs *)
(* best_points: where the models lack them the row raises after the team    *)
(* and the swimmer were stored, and the handler of line 422 drops the rest  *)
(* of the row.                                                              *)
SheetRowEffect(row_idx, row, column_mapping, athlete) ==
    LET age == IF Has(column_mapping, "age") /\ column_mapping.single["age"] < Len(row)
               THEN safe_int(row[column_mapping.single["age"] + 1], None) ELSE None
        events == column_mapping.events
        F[k \in 0 .. Len(events)] ==
            IF k = 0 THEN [results |-> results, db |-> db, raised |-> FALSE]
            ELSE LET prev  == F[k - 1]
                     score == safe_float(CellAt(row, events[k].index), None)
                     entry == sheet_result(row_idx, athlete, age, Val(score), events[k])
                 IN  IF prev.raised \/ events[k].index >= Len(row) \/ ~ScoreCounts(score)
                     THEN prev
                     ELSE [results |-> [prev.results EXCEPT ![entry.event] = Append(@, entry)],
                           db      |-> IF ~call.meet THEN prev.db
                                       ELSE IF call.stroke_other
                                       THEN SaveSheetResult(SaveSheetSwimmer(prev.db, entry), entry)
                                       ELSE SaveSheetSwimmer(prev.db, entry),
                           raised  |-> call.meet /\ ~call.stroke_other]
    IN  F[Len(events)]

NameColumn == Header("name", {}, FALSE)

FirstNameColumn == Header("first name", {}, TRUE)

LastNameColumn == Header("last name", {}, TRUE)

AgeColumn == Header("age", {}, FALSE)

ChinUpsColumn == Header("chin-ups", {"chin-up"}, TRUE)

PlankColumn == Header("plank (sec)", {"plank"}, TRUE)

SheetLayouts ==
    {<<NameColumn, ChinUpsColumn, PlankColumn>>,
     <<FirstNameColumn, LastNameColumn, ChinUpsColumn>>,
     <<AgeColumn, ChinUpsColumn>>}

(* the texts a column of the sheets of the model holds                      *)
CellsOf(header) ==
    IF header = NameColumn THEN {EmptyCell, TextCell(<<"Ann", "Lee">>)}
    ELSE IF header = FirstNameColumn THEN {EmptyCell, TextCell(<<"Ann">>)}
    ELSE IF header = LastNameColumn THEN {EmptyCell, TextCell(<<"Lee">>)}
    ELSE IF header = AgeColumn THEN {NumCell(10), TextCell(<<"ten">>)}
    ELSE IF header = ChinUpsColumn THEN {EmptyCell, NumCell(0), NumCell(1), NumCell(2)}
    ELSE {TextCell(<<"n/a">>), NumCell(-1), NumCell(2)}

SheetRows(headers) ==
    {row \in [1 .. Len(headers) -> UNION {CellsOf(headers[n]) : n \in 1 .. Len(headers)}] :
        \A n \in 1 .. Len(headers) : row[n] \in CellsOf(headers[n])}

SheetRowLists(headers) == UNION {[1 .. n -> SheetRows(headers)] : n \in 0 .. MaxSheetRows}

InitSheet ==
    /\ pc = "ready"
    /\ tbl = {}
    /\ \E headers \in SheetLayouts :
         call \in [kind : {"sheet"}, headers : {headers}, rows : SheetRowLists(headers),
                   meet : BOOLEAN, stroke_other : BOOLEAN]
    /\ call.stroke_other => call.meet
    /\ ret = NoRet
    /\ pos = <<1, 1>>
    /\ event_results = <<>>
    /\ results = <<>>
    /\ db = EmptyDb
    /\ savepoint = EmptyDb

(* lines 268-302: no data rows and the column checks raise, otherwise one   *)
(* empty list per event name                                                *)
SheetBegin ==
    /\ pc = "ready"
    /\ call.kind = "sheet"
    /\ LET column_mapping == identify_columns(call.headers)
       IN  IF call.rows = <<>> \/ NoNameColumns(column_mapping) \/ NoEventColumns(column_mapping)
           THEN /\ pc' = "failed"
                /\ ret' = [raised |-> TRUE, value |-> 0, system |-> 0]
                /\ results' = results
           ELSE /\ pc' = "rows"
                /\ ret' = ret
                /\ results' = [name \in {column_mapping.events[k].name.lower :
                                           k \in 1 .. Len(column_mapping.events)} |-> <<>>]
    /\ savepoint' = db
    /\ UNCHANGED <<tbl, call, pos, event_results, db>>

(* lines 305-424: one data row                                              *)
SheetRow ==
    /\ pc = "rows"
    /\ call.kind = "sheet"
    /\ pos[1] <= Len(call.rows)
    /\ LET column_mapping == identify_columns(call.headers)
           row     == call.rows[pos[1]]
           athlete == athlete_of(row, column_mapping)
           effect  == SheetRowEffect(pos[1] - 1, row, column_mapping, athlete)
       IN  IF athlete.skip
           THEN UNCHANGED <<results, db>>
           ELSE results' = effect.results /\ db' = effect.db
    /\ pos' = <<pos[1] + 1, 1>>
    /\ UNCHANGED <<pc, tbl, call, ret, event_results, savepoint>>

(* lines 426-431: each list by score, highest first                         *)
SheetEnd ==
    /\ pc = "rows"
    /\ call.kind = "sheet"
    /\ pos[1] > Len(call.rows)
    /\ results' = [name \in DOMAIN results |->
                     Items(SortKeyed([i \in 1 .. Len(results[name]) |->
                                        <<Some(0 - results[name][i].score), results[name][i]>>]))]
    /\ pc' = "done"
    /\ UNCHANGED <<tbl, call, ret, pos, event_results, db, savepoint>>

NextSheet == SheetBegin \/ SheetRow \/ SheetEnd

SpecSheet == InitSheet /\ [][NextSheet]_vars

------------------------------------------------------------------------------
(* process_hytek_file_task (uploads/tasks.py) and the status endpoints      *)
(* (uploads/views.py)                                                       *)

(* @shared_task(bind=True, max_retries=3)                                   *)
MaxTaskRetries == 3

(* The uploaded file and the meets of the database.  Meets are numbered in  *)
(* the order of their creation; file_meet is 0 for no meet.  stored tells   *)
(* that a processing of the file has committed its events into the meet     *)
(* the caller named.                                                        *)
InitialFile(meet_id) ==
    [meets             |-> IF meet_id = None THEN 0 ELSE 1,
     created           |-> 0,
     file_meet         |-> IF meet_id = None THEN 0 ELSE Val(meet_id),
     is_processed      |-> FALSE,
     processing_errors |-> FALSE,
     celery_task_id    |-> FALSE,
     stored            |-> FALSE]

(* no message of the task waits in the broker                               *)
NoMessages == [k \in 0 .. MaxTaskRetries |-> 0]

(* call.task_id_field: whether UploadedFile has the field celery_task_id    *)
(* the views read and write; call.file_ok: whether the file can be parsed   *)
InitTask ==
    /\ pc = "ready"
    /\ tbl = {}
    /\ call \in [kind : {"task"}, meet_id : {None, Some(1)}, file_ok : BOOLEAN,
                 task_id_field : BOOLEAN]
    /\ ret = NoRet
    /\ pos = <<0, 1>>
    /\ event_results = NoMessages
    /\ results = <<>>
    /\ db = InitialFile(call.meet_id)
    /\ savepoint = EmptyDb

(* the view: process_..._task.delay(uploaded_file.id) and the task id kept  *)
(* on the file                                                              *)
Enqueue ==
    /\ pc = "ready"
    /\ call.kind = "task"
    /\ event_results' = [event_results EXCEPT ![0] = 1]
    /\ db' = [db EXCEPT !.celery_task_id = call.task_id_field]
    /\ pc' = "queued"
    /\ UNCHANGED <<tbl, call, ret, pos, results, savepoint>>

(* self.retry in the attempt with request.retries = k: past max_retries it  *)
(* raises the exception, otherwise it sends one message with retries k + 1  *)
(* and raises Retry                                                         *)
RetrySends(k) == IF k + 1 > MaxTaskRetries THEN 0 ELSE 1

(* the except of line 194 catches the Retry that the retry of line 182      *)
(* raised and calls self.retry again                                        *)
StatusFailureSends(k) == RetrySends(k) + RetrySends(k)

(* the outcomes one attempt can have: the parse or the store fails, the     *)
(* final status update fails with OperationalError, or the attempt succeeds *)
AttemptOutcomes ==
    IF ~call.file_ok \/ (call.meet_id # None /\ db.stored)
    THEN {"processing_fails"}
    ELSE {"processing_fails", "status_update_fails", "succeeds"}

(* lines 54-117: without a meet id the attempt creates a meet and links the *)
(* file to it                                                               *)
WithMeet(file) ==
    IF call.meet_id # None THEN file
    ELSE [file EXCEPT !.meets = @ + 1, !.created = @ + 1, !.file_meet = file.meets + 1]

(* one run of process_hytek_file_task for a message with retries = k        *)
RunAttempt ==
    /\ pc = "queued"
    /\ call.kind = "task"
    /\ \E k \in 0 .. MaxTaskRetries, outcome \in AttemptOutcomes :
         /\ event_results[k] > 0
         /\ LET file == WithMeet(db)
                sent == IF outcome = "processing_fails" THEN RetrySends(k)
                        ELSE IF outcome = "status_update_fails" THEN StatusFailureSends(k)
                        ELSE 0
                left == [event_results EXCEPT ![k] = @ - 1]
            IN  /\ db' = IF outcome = "processing_fails"
                         THEN [file EXCEPT !.processing_errors = TRUE]
                         ELSE IF outcome = "status_update_fails"
                         THEN [file EXCEPT !.stored = TRUE]
                         ELSE [file EXCEPT !.stored = TRUE, !.is_processed = TRUE]
                /\ event_results' = IF sent = 0 THEN left
                                    ELSE [left EXCEPT ![k + 1] = @ + sent]
                /\ ret' = [raised |-> outcome # "succeeds", value |-> k, system |-> 0]
    /\ pos' = <<pos[1] + 1, 1>>
    /\ UNCHANGED <<pc, tbl, call, results, savepoint>>

(* no message is left: the task has ended                                   *)
TaskEnds ==
    /\ pc = "queued"
    /\ call.kind = "task"
    /\ event_results = NoMessages
    /\ pc' = "ended"
    /\ UNCHANGED <<tbl, call, ret, pos, event_results, results, db, savepoint>>

NextTask == Enqueue \/ RunAttempt \/ TaskEnds

SpecTask == InitTask /\ [][NextTask]_vars

(* the broker delivers every message and the worker runs it                 *)
SpecTaskFair == SpecTask /\ WF_vars(NextTask)

(* get_file_status: the 'status' of the response; reading a field the model *)
(* class lacks raises, and the handler of line 417 answers 'error'          *)
get_file_status(file) ==
    IF file.is_processed THEN "success"
    ELSE IF ~call.task_id_field THEN "error"
    ELSE IF file.celery_task_id THEN "processing"
    ELSE "pending"

(* user_file_status_api: the 'status' of the response; the handler of line  *)
(* 1092 answers without a status                                            *)
user_file_status_api(file) ==
    IF file.is_processed THEN "completed"
    ELSE IF ~call.task_id_field THEN "none"
    ELSE IF file.celery_task_id THEN "processing"
    ELSE "pending"

------------------------------------------------------------------------------
(* Combined results of all meets: get_combined_results                      *)
(* (isca_swim_scorer/uploads/views.py) and export_combined_results_task     *)
(* (isca_swim_scorer/uploads/tasks.py)                                      *)

MaxStored == 2

(* the stored results with their swimmer and event (select_related)         *)
StoredResults ==
    [swimmer : [full_name : {"Ann Lee", "Bo Roy"}, age : {None, Some(5), Some(10)},
                team : {"T1"}],
     event : [name : {"Men's 100 Freestyle (SCY)", "Men's 50 Butterfly (SCY)"}],
     prelim_time : {None, Some(1)}, swim_off_time : {None}, final_time : PhaseValues]

StoredLists == UNION {[1 .. n -> StoredResults] : n \in 0 .. MaxStored}

(* views.py lines 589-596                                                   *)
get_reporting_age_band(age) ==
    IF age = None \/ Val(age) < MinSystemAge THEN None
    ELSE IF Val(age) <= 14 THEN Some(ToString(Val(age)))
    ELSE Some("15-18+")

(* result.swimmer.age if result.swimmer.age and result.swimmer.age > 0      *)
swimmer_age(result) == IF Positive(result.swimmer.age) THEN result.swimmer.age ELSE None

has_valid_time(result) ==
    Positive(result.prelim_time) \/ Positive(result.swim_off_time)
        \/ Positive(result.final_time)

(* views.py lines 673-679, tasks.py lines 358-364: the rendered time of the *)
(* first phase with a positive time, final, preliminary, swim-off           *)
best_formatted_time(result, nothing) ==
    IF Positive(result.final_time) THEN format_swim_time(result.final_time)
    ELSE IF Positive(result.prelim_time) THEN format_swim_time(result.prelim_time)
    ELSE IF Positive(result.swim_off_time) THEN format_swim_time(result.swim_off_time)
    ELSE nothing

(* the first item of every key, in order: the seen-set loop                 *)
FirstOfEachKey(pairs) ==
    LET F[n \in 0 .. Len(pairs)] ==
            IF n = 0 THEN <<>>
            ELSE IF \E j \in 1 .. (n - 1) : pairs[j][1] = pairs[n][1] THEN F[n - 1]
            ELSE Append(F[n - 1], pairs[n])
    IN  F[Len(pairs)]

(* views.py lines 640-697: the entry of one result and its group            *)
ViewShown(result) == get_reporting_age_band(swimmer_age(result)) # None /\ has_valid_time(result)

result_data(result) ==
    [swimmer   |-> result.swimmer.full_name,
     age       |-> swimmer_age(result),
     team_code |-> result.swimmer.team,
     event     |-> result.event.name,
     best      |-> best_formatted_time(result, Dash)]

view_duplicate_key(result) ==
    <<result.swimmer.full_name, swimmer_age(result), result.swimmer.team,
      best_formatted_time(result, Dash)>>

group_label(result) ==
    <<result.event.name, Val(get_reporting_age_band(swimmer_age(result)))>>

(* views.py lines 699-719: one group without duplicates, by best time       *)
GroupOf(stored, label) ==
    LET IsIn(r) == ViewShown(r) /\ group_label(r) = label
        members == SelectSeq(stored, IsIn)
        unique == Items(FirstOfEachKey([i \in 1 .. Len(members) |->
                            <<view_duplicate_key(members[i]), members[i]>>]))
    IN  Items(SortKeyed([i \in 1 .. Len(unique) |->
                            <<Some(best_time(unique[i])), result_data(unique[i])>>]))

(* tasks.py lines 366-372                                                   *)
export_duplicate_key(result) ==
    <<result.swimmer.full_name, result.swimmer.age, result.swimmer.team,
      best_formatted_time(result, Dashes), result.event.name>>

export_row(result) ==
    [swimmer   |-> result.swimmer.full_name,
     age       |-> result.swimmer.age,
     team_code |-> result.swimmer.team,
     event     |-> result.event.name,
     best      |-> best_formatted_time(result, Dashes)]

InitCombined ==
    /\ pc = "ready"
    /\ tbl = {}
    /\ call \in [kind : {"combined"}, output : {"view", "export"}]
    /\ ret = NoRet
    /\ pos = <<1, 1>>
    /\ event_results = <<>>
    /\ results = <<>>
    /\ db \in [events : {<<>>}, teams : {{}}, swimmers : {{}}, results : StoredLists]
    /\ savepoint = EmptyDb

(* get_combined_results: every group of the stored results                  *)
GetCombinedResults ==
    /\ pc = "ready"
    /\ call.kind = "combined" /\ call.output = "view"
    /\ LET shown == SelectSeq(db.results, ViewShown)
           labels == {group_label(shown[i]) : i \in 1 .. Len(shown)}
       IN  results' = [label \in labels |-> GroupOf(db.results, label)]
    /\ pc' = "done"
    /\ UNCHANGED <<tbl, call, ret, pos, event_results, db, savepoint>>

(* export_combined_results_task: the rows of results_by_event.csv           *)
ExportCombinedResults ==
    /\ pc = "ready"
    /\ call.kind = "combined" /\ call.output = "export"
    /\ LET timed == SelectSeq(db.results, has_valid_time)
           unique == Items(FirstOfEachKey([i \in 1 .. Len(timed) |->
                               <<export_duplicate_key(timed[i]), timed[i]>>]))
       IN  event_results' = [i \in 1 .. Len(unique) |-> export_row(unique[i])]
    /\ pc' = "done"
    /\ UNCHANGED <<tbl, call, ret, pos, results, db, savepoint>>

NextCombined == GetCombinedResults \/ ExportCombinedResults

SpecCombined == InitCombined /\ [][NextCombined]_vars

------------------------------------------------------------------------------
(* Claims                                                                   *)

ScoringDone == pc = "done" /\ call.kind = "calculate_points"

PointsDone == pc = "done" /\ call.kind = "get_points"

(* no point table of the point systems matches the event key                *)
NoTableFor(event_key) ==
    \/ (IF KeyGender(event_key) = "Mixed" THEN "Men's" ELSE KeyGender(event_key))
          \notin SystemGenders
    \/ KeyEvent(event_key) \notin TabledEvents

(* C1: calculate_points never raises and returns 0 whenever no point table  *)
(* matches the event key (empty key, key without a space, leading word that *)
(* is no gender of the point system, event without a table).                *)
C1_NoMatchReturnsZero ==
    (ScoringDone /\ NoTableFor(call.event_key)) => (~ret.raised /\ ret.value = 0)

(* C2: a participant whose age is present and between 1 and 14 is never     *)
(* scored against the 15+ table.                                            *)
C2_ClampedAgeNotOpenTable ==
    (ScoringDone /\ ~ret.raised
       /\ call.age # None /\ Val(call.age) >= 1 /\ Val(call.age) <= 14)
        => ret.system # OpenAge

(* C3: an absent age and an age <= 0 select the table of the event's        *)
(* max_age when it is present (the 15+ table when that age has none) and    *)
(* the 15+ table otherwise.                                                 *)
C3_UnknownAgePolicy ==
    (ScoringDone /\ ~ret.raised /\ (call.age = None \/ Val(call.age) <= 0))
        => ret.system = (IF call.event_max_age # None
                            /\ Val(call.event_max_age) \in SystemAges
                         THEN Val(call.event_max_age) ELSE OpenAge)

(* the table get_points reads for the call, when the call names it          *)
PointsTableHit ==
    /\ PointsDone
    /\ call.gender = "Men's" /\ call.event_key = "100 Freestyle (SCY)"
    /\ tbl # {} /\ call.time # None

MinTime == CHOOSE x \in Times(tbl) : \A y \in Times(tbl) : x <= y

MaxTime == CHOOSE x \in Times(tbl) : \A y \in Times(tbl) : x >= y

ClampAndPenalty(q) ==
    /\ q <= MinTime => ret.value = Scale * PointsAt(tbl, MinTime)
    /\ q > MaxTime =>
         ret.value = Max2(0, Scale * (PointsAt(tbl, MaxTime) - 10 * (q - MaxTime)))

(* C4 as claimed: for every table with at least one entry, every query at   *)
(* or below the smallest tabled value returns the points of that entry and  *)
(* a query d above the largest returns max(0, points - 10*d).               *)
C4_ClampAndPenalty == PointsTableHit => ClampAndPenalty(Val(call.time))

(* C4 amended: the same for every query value greater than 0.               *)
C4_ClampAndPenaltyPositive ==
    (PointsTableHit /\ Val(call.time) > 0) => ClampAndPenalty(Val(call.time))

(* C4 witness: a query beyond the largest tabled value returned a penalised *)
(* value that is still above the floor.                                     *)
C4_Witness ==
    /\ PointsTableHit
    /\ Val(call.time) > MaxTime
    /\ ret.value > 0
    /\ ret.value < Scale * PointsAt(tbl, MaxTime)

(* C6: the points returned by the scoring engine are never negative.        *)
C6_PointsNeverNegative == pc = "done" => ret.value >= 0

(* C7: a matched table without entries yields 0 and a matched table with    *)
(* one entry yields that entry's points (floored at 0) for every positive   *)
(* query; neither call raises.                                              *)
C7_DegenerateTablesDefined ==
    (ScoringDone /\ ~NoTableFor(call.event_key) /\ Positive(call.time))
        => /\ tbl = {} => (~ret.raised /\ ret.value = 0)
           /\ Cardinality(tbl) = 1 =>
                 (~ret.raised
                  /\ \A e \in tbl : ret.value = Max2(0, Scale * e[2]))

(* every result entry in the mapping process_dryland_file is building       *)
DrylandEntries ==
    IF call.kind = "dryland" /\ pc \in {"rows", "done"}
    THEN UNION {{results[name][i] : i \in 1 .. Len(results[name])} : name \in DOMAIN results}
    ELSE {}

(* C5: for a fixed age, gender and event whose table is monotone, a higher  *)
(* score never gets fewer points than a lower score on the results of       *)
(* process_dryland_file.                                                    *)
C5_ScoringMonotone ==
    \A r1, r2 \in DrylandEntries :
        (/\ r1.raw_age = r2.raw_age /\ r1.gender = r2.gender /\ r1.column = r2.column
         /\ Monotone(tbl, 1)
         /\ r1.score <= r2.score) => r1.points <= r2.points

(* C8: a result whose gender, event and age have no point table carries 0   *)
(* points in the output of ingestion.                                       *)
C8_LookupMissZeroPoints ==
    \A r \in DrylandEntries :
        NoTableFor(dryland_event_key(r.gender, call.columns[1].header))
            => r.points = 0

(* the value of a stored result chosen by priority: final, then             *)
(* preliminary, then swim-off, each only if present and > 0; 0 if none      *)
PriorityBest(r) ==
    IF Positive(r.final_time) THEN Val(r.final_time)
    ELSE IF Positive(r.prelim_time) THEN Val(r.prelim_time)
    ELSE IF Positive(r.swim_off_time) THEN Val(r.swim_off_time)
    ELSE 0

(* C9: Result.best_time of every stored result is the value chosen by       *)
(* priority final > preliminary > swim-off, the value process_hytek_file    *)
(* scores, for every combination of the three phase values.                 *)
C9_BestTimeByPriority ==
    call.kind = "hytek" =>
        \A i \in 1 .. Len(db.results) : best_time(db.results[i]) = PriorityBest(db.results[i])

(* C10: the points reported for an entry in the returned record equal, up   *)
(* to 2-decimal rounding, the maximum of its phase points, the best_points  *)
(* persisted for it.                                                        *)
C10_PointsAreMaxOfPhases ==
    call.kind = "hytek" =>
        \A i \in 1 .. Len(event_results) : \A j \in 1 .. Len(db.results) :
            (db.results[j].swimmer.swimmer_meet_id = event_results[i].swimmer
             /\ event_results[i].points # None)
                => Val(event_results[i].points) = Round2(db.results[j].best_points)

(* the best recorded time of a returned entry, by priority, from its        *)
(* rendered times; <<>> when no phase has a positive time                   *)
RenderedBest(r) ==
    IF r.final_time # Dash THEN Some(parse_swim_time(r.final_time).value)
    ELSE IF r.prelim_time # Dash THEN Some(parse_swim_time(r.prelim_time).value)
    ELSE IF r.swimoff_time # Dash THEN Some(parse_swim_time(r.swimoff_time).value)
    ELSE None

(* C11: the list returned for a race event is ascending by best recorded    *)
(* time, an entry counting as +infinity only if it has no positive time in  *)
(* any phase.                                                               *)
C11_RaceOrderByBestTime ==
    (call.kind = "hytek" /\ pc = "done") =>
        \A name \in DOMAIN results :
            \A i, j \in 1 .. Len(results[name]) :
                i < j => ~KeyLess(RenderedBest(results[name][j]),
                                  RenderedBest(results[name][i]))

(* every entry of the combined output, whichever form it has                *)
CombinedEmitted ==
    IF call.output = "view"
    THEN UNION {{<<label, i>> : i \in 1 .. Len(results[label])} : label \in DOMAIN results}
    ELSE {<<<<"rows", "all">>, i>> : i \in 1 .. Len(event_results)}

EmittedEntry(e) == IF call.output = "view" THEN results[e[1]][e[2]] ELSE event_results[e[2]]

(* the entries emitted for a stored result: same name, age, team, event and *)
(* formatted best time                                                      *)
EmittedFor(r) ==
    {e \in CombinedEmitted :
        LET x == EmittedEntry(e)
        IN  /\ x.swimmer = r.swimmer.full_name
            /\ x.age = swimmer_age(r)
            /\ x.team_code = r.swimmer.team
            /\ x.event = r.event.name
            /\ parse_swim_time(x.best).value
                 = parse_swim_time(best_formatted_time(r, Dashes)).value}

(* C12: in the combined output every stored result with a positive time is *)
(* emitted exactly once for its (name, age, team, event, formatted best     *)
(* time): duplicates collapse to one entry and results that differ are all  *)
(* emitted.                                                                 *)
C12_CombinedExactlyOnce ==
    (call.kind = "combined" /\ pc = "done") =>
        \A i \in 1 .. Len(db.results) :
            has_valid_time(db.results[i]) => Cardinality(EmittedFor(db.results[i])) = 1

ColumnsChecked == call.kind = "columns" /\ pc # "ready"

(* the index of the first header, left to right, that matches a role        *)
FirstIndexOf(role, names) ==
    LET at == {n \in 1 .. Len(call.headers) : call.headers[n].lower \in names}
    IN  (CHOOSE n \in at : \A k \in at : n <= k) - 1

(* C14: the first header in left-to-right order matching a single-valued    *)
(* role wins it, a later match never replaces the recorded index; event     *)
(* columns are recorded in strictly increasing index order.                 *)
C14_FirstHeaderWins ==
    ColumnsChecked =>
        LET m == ret.columns
        IN  /\ Has(m, "first_name") => m.single["first_name"] = FirstIndexOf("first_name", FirstNameHeaders)
            /\ Has(m, "last_name") => m.single["last_name"] = FirstIndexOf("last_name", LastNameHeaders)
            /\ Has(m, "age") => m.single["age"] = FirstIndexOf("age", AgeHeaders)
            /\ \A i, j \in 1 .. Len(m.events) : i < j => m.events[i].index < m.events[j].index

(* C15: the column mapping holds 'name' only when it holds neither          *)
(* 'first_name' nor 'last_name', for every order of the headers.            *)
C15_FullNameOnlyFallback ==
    ColumnsChecked =>
        (Has(ret.columns, "name")
            => ~Has(ret.columns, "first_name") /\ ~Has(ret.columns, "last_name"))

(* the headers hold a column that identifies the athlete's name             *)
HasNameHeader ==
    \E n \in 1 .. Len(call.headers) :
        call.headers[n].lower \in FullNameHeaders \cup FirstNameHeaders \cup LastNameHeaders

HasFullNameHeader == \E n \in 1 .. Len(call.headers) : call.headers[n].lower \in FullNameHeaders

(* C16: process_dryland_file raises the schema error exactly when the       *)
(* headers hold no athlete-name column or no event-score column; headers    *)
(* with a full-name column and an event column are accepted.                *)
C16_SchemaErrorExactly ==
    ColumnsChecked =>
        /\ (~HasNameHeader \/ NoEventColumns(ret.columns)) => ret.raised
        /\ (HasFullNameHeader /\ ~NoEventColumns(ret.columns)) => ~ret.raised

SheetEntries == UNION {{results[name][i] : i \in 1 .. Len(results[name])} : name \in DOMAIN results}

(* no event cell of the row reads as a number above 0                       *)
NoPositiveCell(row) ==
    \A k \in 1 .. Len(identify_columns(call.headers).events) :
        LET cell == CellAt(row, identify_columns(call.headers).events[k].index)
        IN  cell.number = None \/ Val(cell.number) <= 0

(* C13: every result in the output of process_dryland_file has score > 0,   *)
(* and a row whose event cells are all empty, malformed, zero or negative   *)
(* contributes no result and no persisted record.                           *)
C13_OnlyPositiveScores ==
    call.kind = "sheet" =>
        /\ \A e \in SheetEntries : e.score > 0
        /\ \A r \in 1 .. Len(call.rows) :
             NoPositiveCell(call.rows[r]) =>
                /\ \A e \in SheetEntries : e.row # r - 1
                /\ \A sw \in db.swimmers : sw.key.swimmer_meet_id.row # r - 1
                /\ \A i \in 1 .. Len(db.results) : db.results[i].swimmer.swimmer_meet_id.row # r - 1

(* a finished file with a meet where a named athlete's row holds a zero or  *)
(* negative score and nothing above 0, and another row was stored           *)
C13_Witness ==
    /\ call.kind = "sheet" /\ pc = "done" /\ call.meet /\ call.stroke_other
    /\ \E r \in 1 .. Len(call.rows) :
         /\ NoPositiveCell(call.rows[r])
         /\ ~athlete_of(call.rows[r], identify_columns(call.headers)).skip
         /\ \E n \in 1 .. Len(call.rows[r]) :
              call.rows[r][n].number # None /\ Val(call.rows[r][n].number) <= 0
    /\ SheetEntries # {}
    /\ db.results # <<>>

(* some calculate_points call of the entry can raise                         *)
EntryMayRaise(entry) ==
    \E r \in EntryCalc(entry, best_time_of(entry), best_time_of(entry) # None)
             \cup EntryCalc(entry, entry.prelim_time, call.meet /\ Truthy(entry.prelim_time))
             \cup EntryCalc(entry, entry.swimoff_time, call.meet /\ Truthy(entry.swimoff_time))
             \cup EntryCalc(entry, entry.finals_time, call.meet /\ Truthy(entry.finals_time)) :
        r.raised

ReturnedSwimmers ==
    UNION {{results[name][k].swimmer : k \in 1 .. Len(results[name])} : name \in DOMAIN results}

StoredSwimmers == {db.results[k].swimmer.swimmer_meet_id : k \in 1 .. Len(db.results)}

(* C17: a failure while handling one entry never aborts the file: when the  *)
(* first processing of a file has ended, every entry that does not fail is  *)
(* in the returned lists and, with a meet, has its result stored.           *)
C17_EntryFailureIsolated ==
    (call.kind = "hytek" /\ pos[1] = 1 /\ pc \in {"done", "failed"}) =>
        \A i \in 1 .. Len(call.entries) :
            ~EntryMayRaise(call.entries[i]) =>
                /\ i \in ReturnedSwimmers
                /\ call.meet => i \in StoredSwimmers

(* C18: processing the same file a second time against the same meet        *)
(* succeeds and leaves the teams, swimmers and events of the first          *)
(* processing, with one result record per (swimmer, event) pair.            *)
C18_SecondIngestionIdempotent ==
    (call.kind = "hytek" /\ call.meet /\ pos[1] = 2 /\ pc \in {"done", "failed"}) =>
        /\ pc = "done"
        /\ db.teams = savepoint.teams
        /\ db.swimmers = savepoint.swimmers
        /\ db.events = savepoint.events
        /\ \A i, j \in 1 .. Len(db.results) :
             (db.results[i].swimmer = db.results[j].swimmer
              /\ db.results[i].event = db.results[j].event) => i = j

(* C19: when the processing of a file has failed, the stored teams,         *)
(* swimmers, events and results are those held when the call started.      *)
C19_FailureRestoresStore ==
    (call.kind = "hytek" /\ pc = "failed") => db = savepoint

(* a failure with a meet in the second entry, after the event and the       *)
(* records of the first entry were written                                  *)
C19_Witness ==
    /\ call.kind = "hytek" /\ pc = "failed" /\ call.meet /\ ret.raised
    /\ Len(call.entries) >= 2
    /\ ~EntryMayRaise(call.entries[1])
    /\ EntryMayRaise(call.entries[2])

(* C20: the key under which an event is scored at ingestion equals the      *)
(* event_key derived from the stored event, so rescoring a stored result    *)
(* looks up the same point table.                                           *)
C20_EventKeyReproducible ==
    (call.kind = "event_key" /\ pc = "done") => ret.derived = ret.ingested

(* every entry of the lists returned by process_dryland_file with the name  *)
(* of the group it is filed under                                           *)
Filed ==
    UNION {{[name |-> name, entry |-> results[name][i]] : i \in 1 .. Len(results[name])} :
              name \in DOMAIN results}

(* the reporting bucket of an age that is present                           *)
ReportingBucket(age) ==
    IF age < 6 THEN <<6, 6>> ELSE IF age >= 15 THEN <<15, 99>> ELSE <<age, age>>

BucketLabel(bucket) == IF bucket = <<15, 99>> THEN "Open" ELSE ToString(bucket[1])

(* C21: a result of a participant whose age is present is grouped under     *)
(* (age, age) for 6 <= age <= 14, under (6, 6) for age < 6 and under the     *)
(* Open bucket (15, 99) for age >= 15.                                       *)
C21_ReportingAgeBucket ==
    call.kind = "dryland" =>
        \A f \in Filed :
            f.entry.raw_age # None =>
                /\ <<f.entry.min_age, f.entry.max_age>> = ReportingBucket(Val(f.entry.raw_age))
                /\ f.name[3] = BucketLabel(ReportingBucket(Val(f.entry.raw_age)))

(* C26: every result is filed under the group whose gender qualifier is the *)
(* qualifier of the event key its points were computed with.                *)
C26_GroupGenderIsScoringGender ==
    call.kind = "dryland" =>
        \A f \in Filed :
            \A j \in 1 .. Len(call.columns) :
                call.columns[j].index = f.entry.column =>
                    f.name[1] = KeyGender(dryland_event_key(f.entry.gender, call.columns[j].header))

(* C27: within one meet, event groups with distinct names get distinct      *)
(* event numbers.                                                           *)
C27_GroupNumbersDistinct ==
    (call.kind = "dryland" /\ call.meet) =>
        \A f1, f2 \in Filed :
            f1.name # f2.name => EventNumber(f1.entry) # EventNumber(f2.entry)

(* the text the rendering rule gives a duration of whole seconds            *)
TextByRange(seconds) ==
    IF seconds = None \/ Val(seconds) <= 0 THEN "---"
    ELSE LET x == Val(seconds)
         IN  IF x < 60 THEN ToString(x) \o ".00"
             ELSE IF x < 3600 THEN ToString(x \div 60) \o ":" \o Pad2(x % 60) \o ".00"
             ELSE ToString(x \div 3600) \o ":" \o Pad2((x \div 60) % 60) \o ":"
                      \o Pad2(x % 60) \o ".00"

(* C22: format_swim_time renders absent or <= 0 as "---", below 60 s as a   *)
(* two-decimal number, below 3600 s as M:SS.ss and from 3600 s as           *)
(* H:MM:SS.ss, minutes and seconds zero-padded to two digits.               *)
C22_FormatByRange ==
    (call.kind = "format" /\ pc = "done") => ret.text = TextByRange(call.seconds)

(* C23: parse_swim_time returns 0 for the empty string and for "-" and      *)
(* "---", without raising.                                                  *)
C23_SentinelsParseToZero ==
    (call.kind = "parse" /\ pc = "done" /\ call.text \in {EmptyText, Dash, Dashes}) =>
        ~ret.raised /\ ret.value = 0

(* the straight line through the entries at tabled values a and b,          *)
(* evaluated at q, times Scale                                              *)
LineThrough(a, b, q) ==
    Scale * PointsAt(tbl, a)
        + (PointsAt(tbl, b) - PointsAt(tbl, a)) * (q - a) * (Scale \div (b - a))

SecondMinTime == CHOOSE x \in Times(tbl) \ {MinTime} : \A y \in Times(tbl) \ {MinTime} : x <= y

SecondMaxTime == CHOOSE x \in Times(tbl) \ {MaxTime} : \A y \in Times(tbl) \ {MaxTime} : x >= y

Extrapolated(q) ==
    /\ ~ret.raised
    /\ q < MinTime => ret.value = Max2(0, LineThrough(MinTime, SecondMinTime, q))
    /\ q > MaxTime => ret.value = Max2(0, LineThrough(SecondMaxTime, MaxTime, q))

OnTwoOrMoreEntries ==
    ScoringDone /\ ~NoTableFor(call.event_key) /\ Cardinality(tbl) >= 2 /\ call.time # None

(* C24 as claimed: on a table with at least two entries every query below   *)
(* the smallest or above the largest tabled value returns the line through  *)
(* the two nearest entries at the query, floored at 0.                      *)
C24_LinearExtrapolation == OnTwoOrMoreEntries => Extrapolated(Val(call.time))

(* C24, amended: the same for every query greater than 0.                   *)
C24_LinearExtrapolationPositive ==
    (OnTwoOrMoreEntries /\ Val(call.time) > 0) => Extrapolated(Val(call.time))

(* a query of more than 0 below the smallest tabled value that scores more  *)
(* than the points of the smallest entry                                    *)
C24_Witness ==
    /\ OnTwoOrMoreEntries
    /\ Val(call.time) > 0
    /\ Val(call.time) < MinTime
    /\ ret.value > Scale * PointsAt(tbl, MinTime)

(* the places <<name, k>> of the returned mapping that hold entry i of the  *)
(* event with number e                                                      *)
PlacesOf(e, i) ==
    {p \in UNION {{<<name, k>> : k \in 1 .. Len(results[name])} : name \in DOMAIN results} :
        results[p[1]][p[2]].event_number = e /\ results[p[1]][p[2]].swimmer = i}

(* C25: every entry of every non-relay event of the parsed meet appears     *)
(* exactly once in the returned mapping, in the list of its own event.      *)
C25_NoEntryLost ==
    (call.kind = "hytek_meet" /\ pc = "done") =>
        \A e \in 1 .. Len(call.events) :
            ~call.events[e].relay =>
                \A i \in 1 .. Len(call.events[e].entries) :
                    /\ Cardinality(PlacesOf(e, i)) = 1
                    /\ \A p \in PlacesOf(e, i) : p[1] = event_name(call.events[e], call.course)

(* C28: for a file enqueued without a meet, all attempts of the task        *)
(* together create at most one Meet, and when the task has ended every Meet *)
(* it created is the one the uploaded file refers to.                       *)
C28_AtMostOneMeet ==
    (call.kind = "task" /\ call.meet_id = None) =>
        /\ db.created <= 1
        /\ pc = "ended" => \A m \in 1 .. db.created : db.file_meet = m

(* C29: the task runs at most 1 + max_retries times for one enqueued file,  *)
(* every failed attempt schedules at most one retry.                        *)
C29_AtMostFourRuns ==
    call.kind = "task" =>
        /\ pos[1] <= 1 + MaxTaskRetries
        /\ \A k \in 0 .. MaxTaskRetries : event_results[k] <= 1

(* the status endpoints report a terminal status that agrees with the       *)
(* attempts: success when the file was processed, an error otherwise        *)
TerminalStatus ==
    /\ get_file_status(db) \in {"success", "error"}
    /\ user_file_status_api(db) \in {"completed", "error"}
    /\ db.is_processed <=> get_file_status(db) = "success"
    /\ db.is_processed <=> user_file_status_api(db) = "completed"

(* C30: every uploaded file enqueued for processing eventually reports a    *)
(* terminal status through the status endpoints.                            *)
C30_EventuallyTerminalStatus ==
    (call.kind = "task" /\ pc = "queued") ~> TerminalStatus

====
